---- MODULE Spec2Model ----
(***************************************************************************)
(* A model of the python-diagrams MCP server                               *)
(* (packages/python-diagrams-mcp/server.py): the diagrams_describe lookup, *)
(* the diagrams_render handler, render_diagram with its temporary working  *)
(* directory and process-wide current directory, and the /output save.     *)
(*                                                                         *)
(* Python str values are TLA+ strings, bytes values are sequences of       *)
(* numbers 0..255, None is the string None below.  Submitted programs are  *)
(* source texts; what evaluating a text does (the files it writes relative *)
(* to the current directory, the exception it raises) is given by Run.     *)
(***************************************************************************)
EXTENDS Integers, Sequences, FiniteSets, TLC

(***************************************************************************)
(* Bounds of the model.                                                    *)
(***************************************************************************)
\* how many tool calls the server receives in one behaviour
MaxRequests == 2
\* how many handlers the dispatch layer may run at once in SpecConc
NumWorkers == 2

Workers == 1..NumWorkers

(***************************************************************************)
(* str helpers: the str methods and operators the code uses.               *)
(***************************************************************************)
None == "<None>"

\* Python truthiness of an optional str: None and "" are falsy
Truthy(v) == v # None /\ v # ""

\* str.endswith
EndsWith(s, suffix) ==
    /\ Len(s) >= Len(suffix)
    /\ SubSeq(s, Len(s) - Len(suffix) + 1, Len(s)) = suffix

\* str.startswith
StartsWith(s, prefix) ==
    /\ Len(s) >= Len(prefix)
    /\ SubSeq(s, 1, Len(prefix)) = prefix

\* the 'in' operator on two str values
Contains(s, sub) ==
    \E i \in 1..(Len(s) - Len(sub) + 1) : SubSeq(s, i, i + Len(sub) - 1) = sub

\* str.join over a list of str
RECURSIVE Join(_, _)
Join(sep, items) ==
    IF items = <<>> THEN ""
    ELSE IF Len(items) = 1 THEN items[1]
    ELSE items[1] \o sep \o Join(sep, Tail(items))

\* dict.get(key, default)
Get(d, key, default) == IF key \in DOMAIN d THEN d[key] ELSE default

(***************************************************************************)
(* The guideline texts.  SANY cannot read a backquote inside a string, so   *)
(* every backquote of the source texts is written as an apostrophe (the    *)
(* source texts hold no apostrophe of their own).                          *)
(***************************************************************************)
OverviewLines == <<
    "# Python Diagrams Library",
    "",
    "The **diagrams** library lets you draw cloud system architecture diagrams using Python code.",
    "",
    "## Basic Structure",
    "",
    "'''python",
    "from diagrams import Diagram, Cluster, Edge",
    "from diagrams.aws.compute import EC2",
    "from diagrams.aws.network import ELB",
    "",
    "with Diagram(\"Web Service\", show=False):",
    "    ELB(\"lb\") >> EC2(\"web\")",
    "'''",
    "",
    "## Key Concepts",
    "",
    "- **Diagram**: Container for the entire diagram. Use 'show=False' to prevent auto-opening.",
    "- **Cluster**: Group nodes visually with a box.",
    "- **Edge**: Customize connections (color, style, label).",
    "- **Nodes**: Cloud provider resources (EC2, Lambda, etc.)",
    "",
    "## Connection Operators",
    "",
    "- '>>': Left to right flow",
    "- '<<': Right to left flow",
    "- '-': Bidirectional / no direction",
    "",
    "## Output Formats",
    "",
    "- **PNG** (default): Best for sharing and embedding",
    "- **SVG**: Scalable, good for documentation",
    "- **PDF**: Print-ready format",
    "",
    "## Available Providers",
    "",
    "| Provider | Description |",
    "|----------|-------------|",
    "| aws | Amazon Web Services |",
    "| azure | Microsoft Azure |",
    "| gcp | Google Cloud Platform |",
    "| k8s | Kubernetes |",
    "| onprem | On-premises / Self-hosted |",
    "| generic | Generic architecture icons |",
    "| programming | Programming languages & frameworks |",
    "| saas | SaaS products |",
    "| firebase | Firebase services |",
    "| elastic | Elastic Stack |",
    "",
    "Use 'diagrams_describe(category: \"aws\")' to get provider-specific guidelines.",
    "",
    "## References",
    "",
    "- Documentation: https://diagrams.mingrammer.com/",
    "- GitHub: https://github.com/mingrammer/diagrams"
>>

OVERVIEW == Join("\n", OverviewLines) \o "\n"

\* the insertion order of the PROVIDERS dict
ProviderKeys == <<"aws", "gcp", "k8s", "onprem">>

AwsExample ==
    Join("\n", <<
        "from diagrams import Diagram, Cluster",
        "from diagrams.aws.compute import EC2, ECS",
        "from diagrams.aws.database import RDS",
        "from diagrams.aws.network import ELB",
        "",
        "with Diagram(\"AWS Architecture\", show=False):",
        "    lb = ELB(\"lb\")",
        "    with Cluster(\"Web Tier\"):",
        "        web = [EC2(\"web1\"), EC2(\"web2\")]",
        "    db = RDS(\"db\")",
        "    lb >> web >> db" >>)

GcpExample ==
    Join("\n", <<
        "from diagrams import Diagram, Cluster",
        "from diagrams.gcp.compute import GCE, GKE",
        "from diagrams.gcp.database import SQL",
        "",
        "with Diagram(\"GCP Architecture\", show=False):",
        "    gke = GKE(\"gke\")",
        "    sql = SQL(\"cloudsql\")",
        "    gke >> sql" >>)

K8sExample ==
    Join("\n", <<
        "from diagrams import Diagram, Cluster",
        "from diagrams.k8s.compute import Pod, Deployment",
        "from diagrams.k8s.network import Service, Ingress",
        "",
        "with Diagram(\"K8s Architecture\", show=False):",
        "    ingress = Ingress(\"ingress\")",
        "    svc = Service(\"service\")",
        "    with Cluster(\"Deployment\"):",
        "        pods = [Pod(\"pod1\"), Pod(\"pod2\")]",
        "    ingress >> svc >> pods" >>)

OnpremExample ==
    Join("\n", <<
        "from diagrams import Diagram, Cluster",
        "from diagrams.onprem.compute import Server",
        "from diagrams.onprem.database import PostgreSQL",
        "from diagrams.onprem.network import Nginx",
        "",
        "with Diagram(\"On-Prem Architecture\", show=False):",
        "    nginx = Nginx(\"nginx\")",
        "    with Cluster(\"App Servers\"):",
        "        apps = [Server(\"app1\"), Server(\"app2\")]",
        "    db = PostgreSQL(\"postgres\")",
        "    nginx >> apps >> db" >>)

PROVIDERS ==
    [k \in {ProviderKeys[i] : i \in DOMAIN ProviderKeys} |->
        CASE k = "aws" ->
                [name |-> "Amazon Web Services",
                 modules |-> <<"analytics", "compute", "database", "network",
                               "storage", "security", "ml", "integration">>,
                 example |-> AwsExample]
          [] k = "gcp" ->
                [name |-> "Google Cloud Platform",
                 modules |-> <<"compute", "database", "network", "storage",
                               "ml", "analytics">>,
                 example |-> GcpExample]
          [] k = "k8s" ->
                [name |-> "Kubernetes",
                 modules |-> <<"compute", "network", "storage", "controlplane",
                               "rbac">>,
                 example |-> K8sExample]
          [] k = "onprem" ->
                [name |-> "On-Premises",
                 modules |-> <<"compute", "database", "network", "monitoring",
                               "container", "queue">>,
                 example |-> OnpremExample]]

(***************************************************************************)
(* Content items of a response (mcp.types TextContent and ImageContent).   *)
(***************************************************************************)
TextContent(text) ==
    [type |-> "text", text |-> text, data |-> "", mimeType |-> ""]

ImageContent(data, mimeType) ==
    [type |-> "image", text |-> "", data |-> data, mimeType |-> mimeType]

(***************************************************************************)
(* diagrams_describe: the three answers of the lookup.                     *)
(***************************************************************************)
UnknownCategoryText(category) ==
    "Unknown category: " \o category \o "\n\nAvailable: "
        \o Join(", ", ProviderKeys)

ProviderText(category) ==
    LET provider == PROVIDERS[category]
    IN  "# " \o provider.name \o "\n"
        \o "\n"
        \o "## Available Modules\n"
        \o "\n"
        \o "'''\n"
        \o "from diagrams." \o category \o ".<module> import <Node>\n"
        \o "'''\n"
        \o "\n"
        \o "Modules: " \o Join(", ", provider.modules) \o "\n"
        \o "\n"
        \o "## Example\n"
        \o "\n"
        \o "'''python\n"
        \o provider.example \o "\n"
        \o "'''\n"
        \o "\n"
        \o "## References\n"
        \o "\n"
        \o "- Nodes list: https://diagrams.mingrammer.com/docs/nodes/"
        \o category \o "\n"

\* PROVIDERS.get(category) is not None
KnownCategory(category) == category \in DOMAIN PROVIDERS

DescribeResponse(arguments) ==
    LET category == Get(arguments, "category", None)
    IN  IF ~Truthy(category) THEN <<TextContent(OVERVIEW)>>
        ELSE IF ~KnownCategory(category)
             THEN <<TextContent(UnknownCategoryText(category))>>
             ELSE <<TextContent(ProviderText(category))>>

(***************************************************************************)
(* bytes conversions: base64.b64encode and bytes.decode("utf-8").          *)
(***************************************************************************)
B64Alphabet ==
    "ABCDEFGHIJKLMNOPQRSTUVWXYZabcdefghijklmnopqrstuvwxyz0123456789+/"

B64Char(i) == SubSeq(B64Alphabet, i + 1, i + 1)

\* base64.b64encode(b).decode(): three bytes become four characters, a
\* last group of one or two bytes is padded with "="
RECURSIVE B64Encode(_)
B64Encode(b) ==
    IF Len(b) = 0 THEN ""
    ELSE IF Len(b) = 1 THEN
        B64Char(b[1] \div 4) \o B64Char((b[1] % 4) * 16) \o "=="
    ELSE IF Len(b) = 2 THEN
        B64Char(b[1] \div 4)
            \o B64Char((b[1] % 4) * 16 + b[2] \div 16)
            \o B64Char((b[2] % 16) * 4) \o "="
    ELSE
        B64Char(b[1] \div 4)
            \o B64Char((b[1] % 4) * 16 + b[2] \div 16)
            \o B64Char((b[2] % 16) * 4 + b[3] \div 64)
            \o B64Char(b[3] % 64)
            \o B64Encode(SubSeq(b, 4, Len(b)))

\* the character of a code point: printable ASCII by table (the backquote,
\* 96, is written as an apostrophe), any other code point as an escape
AsciiLow == " !\"#$%&'()*+,-./0123456789:;<=>?@ABCDEFGHIJKLMNOPQRSTUVWXYZ[\\]^_"
AsciiHigh == "'abcdefghijklmnopqrstuvwxyz{|}~"

Chr(cp) ==
    IF cp >= 32 /\ cp <= 95 THEN SubSeq(AsciiLow, cp - 31, cp - 31)
    ELSE IF cp >= 96 /\ cp <= 126 THEN SubSeq(AsciiHigh, cp - 95, cp - 95)
    ELSE "\\u{" \o ToString(cp) \o "}"

IsCont(b, i) == i <= Len(b) /\ b[i] >= 128 /\ b[i] <= 191

\* how many bytes the UTF-8 sequence starting at b[1] takes; 0 when b does
\* not start with a well-formed sequence (strict decoding: no overlong
\* forms, no surrogates, nothing above U+10FFFF)
Utf8Width(b) ==
    IF b[1] < 128 THEN 1
    ELSE IF b[1] >= 194 /\ b[1] <= 223 THEN
        IF IsCont(b, 2) THEN 2 ELSE 0
    ELSE IF b[1] >= 224 /\ b[1] <= 239 THEN
        IF /\ IsCont(b, 2) /\ IsCont(b, 3)
           /\ (b[1] = 224 => b[2] >= 160)
           /\ (b[1] = 237 => b[2] <= 159)
        THEN 3 ELSE 0
    ELSE IF b[1] >= 240 /\ b[1] <= 244 THEN
        IF /\ IsCont(b, 2) /\ IsCont(b, 3) /\ IsCont(b, 4)
           /\ (b[1] = 240 => b[2] >= 144)
           /\ (b[1] = 244 => b[2] <= 143)
        THEN 4 ELSE 0
    ELSE 0

Utf8CodePoint(b, width) ==
    CASE width = 1 -> b[1]
      [] width = 2 -> (b[1] - 192) * 64 + (b[2] - 128)
      [] width = 3 -> (b[1] - 224) * 4096 + (b[2] - 128) * 64 + (b[3] - 128)
      [] width = 4 -> (b[1] - 240) * 262144 + (b[2] - 128) * 4096
                        + (b[3] - 128) * 64 + (b[4] - 128)

\* bytes.decode("utf-8"): [ok |-> TRUE, text |-> the str], or ok = FALSE
\* where Python raises UnicodeDecodeError
RECURSIVE Utf8Decode(_)
Utf8Decode(b) ==
    IF Len(b) = 0 THEN [ok |-> TRUE, text |-> ""]
    ELSE LET width == Utf8Width(b)
         IN  IF width = 0 THEN [ok |-> FALSE, text |-> ""]
             ELSE LET rest == Utf8Decode(SubSeq(b, width + 1, Len(b)))
                  IN  [ok |-> rest.ok,
                       text |-> IF rest.ok
                                THEN Chr(Utf8CodePoint(b, width)) \o rest.text
                                ELSE ""]

(***************************************************************************)
(* Exceptions: the classes the model meets, with their base class.         *)
(***************************************************************************)
ExcBase ==
    [c \in {"BaseException", "Exception", "SystemExit", "SyntaxError",
            "ImportError", "ModuleNotFoundError", "ValueError",
            "UnicodeDecodeError", "OSError", "FileNotFoundError"} |->
        CASE c = "BaseException" -> None
          [] c = "Exception" -> "BaseException"
          [] c = "SystemExit" -> "BaseException"
          [] c = "SyntaxError" -> "Exception"
          [] c = "ImportError" -> "Exception"
          [] c = "ModuleNotFoundError" -> "ImportError"
          [] c = "ValueError" -> "Exception"
          [] c = "UnicodeDecodeError" -> "ValueError"
          [] c = "OSError" -> "Exception"
          [] c = "FileNotFoundError" -> "OSError"]

\* isinstance(e, target) by the class of e
RECURSIVE IsInstance(_, _)
IsInstance(cls, target) ==
    IF cls = None THEN FALSE
    ELSE IF cls = target THEN TRUE
    ELSE IsInstance(ExcBase[cls], target)

\* an exception: its class and str(e); NoExc when nothing was raised
Exc(cls, msg) == [cls |-> cls, msg |-> msg]
NoExc == Exc(None, "")

(***************************************************************************)
(* Submitted programs.  A program is its source text; Run gives what       *)
(* exec(code, exec_globals) does with it: the files it writes, by names    *)
(* relative to the current directory, and the exception it ends with.      *)
(* A text that does not compile writes nothing.                            *)
(***************************************************************************)
PngA == <<137, 80, 78, 71>>
PngB == <<137, 80, 78, 71, 66>>
PngC == <<137, 80, 78, 71, 67, 67>>
SvgA == <<60, 115, 118, 103, 62, 195, 169, 60, 47, 115, 118, 103, 62>>
PdfA == <<37, 80, 68, 70, 45>>
TxtA == <<110>>

CodeEmpty == ""
CodeNoImport == "import os; open('out.png', 'wb').write(b'x')"
CodePng == "from diagrams import Diagram; Diagram('out', show=False)"
CodePngB == "from diagrams import Diagram; Diagram('out', show=False, direction='TB')"
CodeSvg == "import diagrams; diagrams.Diagram('out', show=False, outformat='svg')"
CodePdf == "from diagrams import Diagram; Diagram('out', show=False, outformat='pdf')"
CodeAll == "from diagrams import Diagram; Diagram('out', show=False, outformat=['png', 'svg', 'pdf'])"
CodeSvgPdf == "from diagrams import Diagram; Diagram('out', show=False, outformat=['svg', 'pdf'])"
CodePngPdf == "from diagrams import Diagram; Diagram('out', show=False, outformat=['png', 'pdf'])"
CodeTwoPng == "from diagrams import Diagram; Diagram('out', show=False); Diagram('b', show=False)"
CodeTxt == "from diagrams import Diagram; open('notes.txt', 'w').write('n')"
CodeNothing == "from diagrams import Diagram"
CodeSyntax == "from diagrams import ("
CodeImport == "from diagrams import Nope"
CodeModule == "from diagrams import Diagram; Diagram('out', show=False); import nope"
CodeValue == "from diagrams import Diagram; raise ValueError('bad')"
CodeExit == "from diagrams import Diagram; import sys; sys.exit(1)"

\* a mapping with no key (an empty directory, an empty arguments dict)
Empty == [k \in {} |-> <<>>]

Ran(writes, raises) == [writes |-> writes, raises |-> raises]

Run(code) ==
    CASE code = CodeNoImport -> Ran([f \in {"out.png"} |-> <<120>>], NoExc)
      [] code = CodePng -> Ran([f \in {"out.png"} |-> PngA], NoExc)
      [] code = CodePngB -> Ran([f \in {"out.png"} |-> PngB], NoExc)
      [] code = CodeSvg -> Ran([f \in {"out.svg"} |-> SvgA], NoExc)
      [] code = CodePdf -> Ran([f \in {"out.pdf"} |-> PdfA], NoExc)
      [] code = CodeAll ->
            Ran([f \in {"out.png", "out.svg", "out.pdf"} |->
                    CASE f = "out.png" -> PngA
                      [] f = "out.svg" -> SvgA
                      [] f = "out.pdf" -> PdfA], NoExc)
      [] code = CodeSvgPdf ->
            Ran([f \in {"out.svg", "out.pdf"} |->
                    IF f = "out.svg" THEN SvgA ELSE PdfA], NoExc)
      [] code = CodePngPdf ->
            Ran([f \in {"out.png", "out.pdf"} |->
                    IF f = "out.png" THEN PngA ELSE PdfA], NoExc)
      [] code = CodeTwoPng ->
            Ran([f \in {"out.png", "b.png"} |->
                    IF f = "out.png" THEN PngA ELSE PngC], NoExc)
      [] code = CodeTxt -> Ran([f \in {"notes.txt"} |-> TxtA], NoExc)
      [] code = CodeNothing -> Ran(Empty, NoExc)
      [] code = CodeSyntax ->
            Ran(Empty, Exc("SyntaxError", "'(' was never closed (<string>, line 1)"))
      [] code = CodeImport ->
            Ran(Empty, Exc("ImportError", "cannot import name 'Nope' from 'diagrams'"))
      [] code = CodeModule ->
            Ran([f \in {"out.png"} |-> PngA],
                Exc("ModuleNotFoundError", "No module named 'nope'"))
      [] code = CodeValue -> Ran(Empty, Exc("ValueError", "bad"))
      [] code = CodeExit -> Ran(Empty, Exc("SystemExit", "1"))
      [] OTHER -> Ran(Empty, NoExc)

\* the programs a request may carry
Codes ==
    {CodeEmpty, CodeNoImport, CodePng, CodeSvg, CodePdf, CodeAll, CodeSvgPdf,
     CodePngPdf, CodeTwoPng, CodeTxt, CodeNothing, CodeSyntax, CodeImport,
     CodeModule, CodeValue, CodeExit}

\* the format values of the tool's input schema
Formats == {"png", "svg", "pdf"}

\* the output_path values a request may carry (relative paths)
OutputPaths == {"", "diagram", "diagram.png", "sub/diagram"}

\* the category values a describe request may carry
Categories ==
    {"", "aws", "gcp", "k8s", "onprem", "azure", "generic", "programming",
     "saas", "firebase", "elastic", "bogus"}

\* every arguments dict over the given keys: each key is absent or bound
ArgumentsOver(codes, formats, paths) ==
    { [k \in keys |->
          CASE k = "code" -> c [] k = "format" -> f [] k = "output_path" -> p] :
        keys \in SUBSET {"code", "format", "output_path"},
        c \in codes, f \in formats, p \in paths }

(***************************************************************************)
(* render_diagram, piece by piece.                                         *)
(***************************************************************************)
get_mime_type(ext) ==
    CASE ext = ".png" -> "image/png"
      [] ext = ".svg" -> "image/svg+xml"
      [] ext = ".pdf" -> "application/pdf"
      [] OTHER -> "application/octet-stream"

\* a variant of the search order without the requested extension in front
SearchOrderFixed(output_format) == <<".png", ".svg", ".pdf">>

\* the extensions the search tries, in order
SearchOrder(output_format) == <<"." \o output_format, ".png", ".svg", ".pdf">>

\* Path(tmpdir).glob("*" + ext) over the files of a directory
Glob(files, ext) == {f \in DOMAIN files : EndsWith(f, ext)}

\* the first extension of the search order that some file matches, 0 if none
FirstMatch(files, output_format) ==
    LET order == SearchOrder(output_format)
        hits == {i \in DOMAIN order : Glob(files, order[i]) # {}}
    IN  IF hits = {} THEN 0
        ELSE CHOOSE i \in hits : \A j \in hits : i <= j

Success(filename, content, mime_type) ==
    [success |-> TRUE, filename |-> filename, content |-> content,
     mime_type |-> mime_type, error |-> None]

Failure(error) ==
    [success |-> FALSE, filename |-> None, content |-> <<>>,
     mime_type |-> None, error |-> error]

NoDiagramError ==
    "No diagram file was generated. Ensure your code creates a Diagram with show=False."

\* a variant of the except clauses with the generic clause in front
ExceptClausesGenericFirst ==
    << [cls |-> "Exception", prefix |-> ""],
       [cls |-> "SyntaxError", prefix |-> "Python syntax error: "],
       [cls |-> "ImportError", prefix |-> "Import error: "] >>

\* the except clauses of render_diagram, in order: the class caught and the
\* text put before str(e)
ExceptClauses ==
    << [cls |-> "SyntaxError", prefix |-> "Python syntax error: "],
       [cls |-> "ImportError", prefix |-> "Import error: "],
       [cls |-> "Exception", prefix |-> ""] >>

\* the first except clause that catches e, 0 when none does
CatchingClause(e) ==
    LET hits == {i \in DOMAIN ExceptClauses :
                    IsInstance(e.cls, ExceptClauses[i].cls)}
    IN  IF hits = {} THEN 0
        ELSE CHOOSE i \in hits : \A j \in hits : i <= j

\* a variant of the cleanup that runs only when the block ends normally
\* (mkdtemp with a trailing rmtree instead of a context manager)
ExitTmpDirUnlessRaised(fs, d, e) ==
    IF e = [cls |-> None, msg |-> ""] THEN [x \in DOMAIN fs \ {d} |-> fs[x]]
    ELSE fs

\* TemporaryDirectory.__exit__: the directory and what it holds are removed,
\* whether or not an exception is leaving the with block
ExitTmpDir(fs, d, e) == [x \in DOMAIN fs \ {d} |-> fs[x]]

\* the files of a directory after a program wrote into it
WriteAll(files, writes) ==
    [f \in DOMAIN files \cup DOMAIN writes |->
        IF f \in DOMAIN writes THEN writes[f] ELSE files[f]]

(***************************************************************************)
(* call_tool, diagrams_render: the pieces of the handler.                  *)
(***************************************************************************)
\* a variant of the validation that accepts any import statement
HasAnyImport(code) == Contains(code, "import")

\* the validation of the submitted code
HasDiagramsImport(code) ==
    Contains(code, "from diagrams") \/ Contains(code, "import diagrams")

ImportRequiredError == "Error: Code must import from the diagrams library"

NotMountedError ==
    "Error: /output directory not mounted. Use: docker run -v /your/path:/output ..."

OutputDir == "/output"

\* a variant of the existence test that takes the directory for granted
ExistsAssumed(dirs, path) == TRUE

\* Path.exists()
Exists(dirs, path) == path \in dirs

\* a variant of the normalization that appends the extension without looking
NormalizePathAppending(output_path, output_format) ==
    output_path \o "." \o output_format

\* the output path with the extension of the format, added when missing
NormalizePath(output_path, output_format) ==
    IF ~EndsWith(output_path, "." \o output_format)
    THEN output_path \o "." \o output_format
    ELSE output_path

\* output_dir / output_path of pathlib: an absolute right operand replaces
\* the left one
JoinPath(dir, path) ==
    IF StartsWith(path, "/") THEN path ELSE dir \o "/" \o path

\* the directories above a path
ParentDirs(path) ==
    {SubSeq(path, 1, i - 1) : i \in {j \in 2..Len(path) : SubSeq(path, j, j) = "/"}}

\* full_path.parent.mkdir(parents=True, exist_ok=True)
MkdirParents(dirs, path) == dirs \cup ParentDirs(path)

\* open(full_path, "wb") and f.write(content)
WriteFile(files, path, content) ==
    [f \in DOMAIN files \cup {path} |-> IF f = path THEN content ELSE files[f]]

\* the artifact item of a successful response
ArtifactItem(output_format, result) ==
    IF output_format = "svg"
    THEN TextContent(Utf8Decode(result.content).text)
    ELSE ImageContent(B64Encode(result.content), result.mime_type)

\* whether building the artifact item raises (UnicodeDecodeError)
ArtifactItemRaises(output_format, result) ==
    output_format = "svg" /\ ~Utf8Decode(result.content).ok

SavedItems(saved_path) ==
    IF Truthy(saved_path) THEN <<TextContent("Saved to: " \o saved_path)>>
    ELSE <<>>

(***************************************************************************)
(* State.                                                                  *)
(*   handler[w]  the handler running in context w: where it is (pc), the   *)
(*               tool called, its locals, the response it returned or the  *)
(*               exception that left call_tool (fault); evaluated and      *)
(*               entry record, for the properties, whether exec ran and    *)
(*               the state the handler started from                        *)
(*   tmpfs       the existing temporary directories, each with its files   *)
(*   cwd         the current working directory of the process: 0 is the    *)
(*               directory the server started in, n > 0 the n-th temporary *)
(*               directory made (which may no longer exist)                *)
(*   nextTmp     how many temporary directories were made so far           *)
(*   outDirs     the directories that exist at or under /output            *)
(*   outFiles    the files under /output                                   *)
(*   served      how many tool calls were received                         *)
(***************************************************************************)
VARIABLES handler, tmpfs, cwd, nextTmp, outDirs, outFiles, served

vars == <<handler, tmpfs, cwd, nextTmp, outDirs, outFiles, served>>

NoResult == Failure(None)

Snapshot == [cwd |-> cwd, nextTmp |-> nextTmp, outDirs |-> outDirs,
             outFiles |-> outFiles]

IdleFrame ==
    [pc |-> "idle", name |-> None, category |-> None, code |-> None,
     output_format |-> None, output_path |-> None, tmpdir |-> 0,
     raised |-> NoExc, result |-> NoResult, saved_path |-> None,
     response |-> <<>>, fault |-> NoExc, evaluated |-> FALSE,
     entry |-> [cwd |-> 0, nextTmp |-> 0, outDirs |-> {}, outFiles |-> Empty]]

Init ==
    /\ handler = [w \in Workers |-> IdleFrame]
    /\ tmpfs = Empty
    /\ cwd = 0
    /\ nextTmp = 0
    /\ outDirs \in {{}, {OutputDir}}
    /\ outFiles = Empty
    /\ served = 0

\* a context that runs no handler takes the next call
CanAccept(w) == handler[w].pc = "idle"

Accept(w) == CanAccept(w) /\ served < MaxRequests /\ served' = served + 1

Set(w, frame) == handler' = [handler EXCEPT ![w] = frame]

(***************************************************************************)
(* The handlers.                                                           *)
(***************************************************************************)
\* call_tool("diagrams_describe", arguments)
CallDescribe(w) ==
    /\ Accept(w)
    /\ \E arguments \in {Empty} \cup {[k \in {"category"} |-> c] : c \in Categories} :
          Set(w, [IdleFrame EXCEPT
                    !.pc = "done",
                    !.name = "diagrams_describe",
                    !.category = Get(arguments, "category", None),
                    !.response = DescribeResponse(arguments),
                    !.entry = Snapshot])
    /\ UNCHANGED <<tmpfs, cwd, nextTmp, outDirs, outFiles>>

\* call_tool with a name that is neither tool
CallUnknown(w) ==
    /\ Accept(w)
    /\ \E name \in {"diagrams_list"} :
          Set(w, [IdleFrame EXCEPT
                    !.pc = "done",
                    !.name = name,
                    !.response = <<TextContent("Unknown tool: " \o name)>>,
                    !.entry = Snapshot])
    /\ UNCHANGED <<tmpfs, cwd, nextTmp, outDirs, outFiles>>

\* call_tool("diagrams_render", arguments) up to the call of render_diagram:
\* the arguments are read and the code is validated
CallRender(w, argumentSets) ==
    /\ Accept(w)
    /\ \E arguments \in argumentSets :
          LET code == Get(arguments, "code", "")
              frame == [IdleFrame EXCEPT
                          !.name = "diagrams_render",
                          !.code = code,
                          !.output_format = Get(arguments, "format", "png"),
                          !.output_path = Get(arguments, "output_path", None),
                          !.entry = Snapshot]
          IN  IF ~HasDiagramsImport(code)
              THEN Set(w, [frame EXCEPT
                             !.pc = "done",
                             !.response = <<TextContent(ImportRequiredError)>>])
              ELSE Set(w, [frame EXCEPT !.pc = "mkdtemp"])
    /\ UNCHANGED <<tmpfs, cwd, nextTmp, outDirs, outFiles>>

\* render_diagram: tempfile.TemporaryDirectory() makes a new, empty directory
MkTemp(w) ==
    /\ handler[w].pc = "mkdtemp"
    /\ nextTmp' = nextTmp + 1
    /\ tmpfs' = [d \in DOMAIN tmpfs \cup {nextTmp + 1} |->
                    IF d = nextTmp + 1 THEN Empty ELSE tmpfs[d]]
    /\ Set(w, [handler[w] EXCEPT !.pc = "chdir", !.tmpdir = nextTmp + 1])
    /\ UNCHANGED <<cwd, outDirs, outFiles, served>>

\* render_diagram: os.chdir(tmpdir)
Chdir(w) ==
    /\ handler[w].pc = "chdir"
    /\ cwd' = handler[w].tmpdir
    /\ Set(w, [handler[w] EXCEPT !.pc = "exec"])
    /\ UNCHANGED <<tmpfs, nextTmp, outDirs, outFiles, served>>

\* render_diagram: exec(code, exec_globals).  The program writes its files
\* into the current directory of the process; writing into a directory that
\* no longer exists raises FileNotFoundError
Exec(w) ==
    /\ handler[w].pc = "exec"
    /\ LET ran == Run(handler[w].code)
       IN  IF ran.writes # Empty /\ cwd \notin DOMAIN tmpfs
           THEN /\ Set(w, [handler[w] EXCEPT
                             !.pc = "exit",
                             !.evaluated = TRUE,
                             !.raised = Exc("FileNotFoundError",
                                            "[Errno 2] No such file or directory")])
                /\ UNCHANGED tmpfs
           ELSE /\ tmpfs' = IF ran.writes = Empty THEN tmpfs
                            ELSE [tmpfs EXCEPT ![cwd] = WriteAll(@, ran.writes)]
                /\ Set(w, [handler[w] EXCEPT
                             !.pc = IF ran.raises = NoExc THEN "scan" ELSE "exit",
                             !.evaluated = TRUE,
                             !.raised = ran.raises])
    /\ UNCHANGED <<cwd, nextTmp, outDirs, outFiles, served>>

\* render_diagram: the search for the generated file and the return from
\* inside the with block.  Among several files of the matched extension the
\* one glob yields first is taken: any of them
Scan(w) ==
    /\ handler[w].pc = "scan"
    /\ LET files == tmpfs[handler[w].tmpdir]
           i == FirstMatch(files, handler[w].output_format)
       IN  IF i = 0
           THEN Set(w, [handler[w] EXCEPT
                          !.pc = "exit", !.result = Failure(NoDiagramError)])
           ELSE LET ext == SearchOrder(handler[w].output_format)[i]
                IN  \E f \in Glob(files, ext) :
                       Set(w, [handler[w] EXCEPT
                                 !.pc = "exit",
                                 !.result = Success(f, files[f], get_mime_type(ext))])
    /\ UNCHANGED <<tmpfs, cwd, nextTmp, outDirs, outFiles, served>>

\* render_diagram: the with block is left (the temporary directory is
\* removed), then the except clauses: a caught exception becomes a failure
\* result, any other leaves render_diagram and call_tool
Exit(w) ==
    /\ handler[w].pc = "exit"
    /\ tmpfs' = ExitTmpDir(tmpfs, handler[w].tmpdir, handler[w].raised)
    /\ LET e == handler[w].raised
           i == CatchingClause(e)
       IN  IF e = NoExc
           THEN Set(w, [handler[w] EXCEPT !.pc = "assemble"])
           ELSE IF i # 0
           THEN Set(w, [handler[w] EXCEPT
                          !.pc = "assemble",
                          !.result = Failure(ExceptClauses[i].prefix \o e.msg)])
           ELSE Set(w, [handler[w] EXCEPT !.pc = "crashed", !.fault = e])
    /\ UNCHANGED <<cwd, nextTmp, outDirs, outFiles, served>>

\* call_tool after render_diagram returned: the error text, or the save
\* under /output and the content list
Assemble(w) ==
    /\ handler[w].pc = "assemble"
    /\ LET h == handler[w]
           result == h.result
       IN  IF ~result.success
           THEN /\ Set(w, [h EXCEPT
                             !.pc = "done",
                             !.response = <<TextContent("Error: " \o result.error)>>])
                /\ UNCHANGED <<outDirs, outFiles>>
           ELSE IF Truthy(h.output_path) /\ ~Exists(outDirs, OutputDir)
           THEN /\ Set(w, [h EXCEPT
                             !.pc = "done",
                             !.response = <<TextContent(NotMountedError)>>])
                /\ UNCHANGED <<outDirs, outFiles>>
           ELSE LET full_path ==
                        JoinPath(OutputDir,
                                 NormalizePath(h.output_path, h.output_format))
                    saved_path == IF Truthy(h.output_path) THEN full_path ELSE None
                IN  /\ IF Truthy(h.output_path)
                       THEN /\ outDirs' = MkdirParents(outDirs, full_path)
                            /\ outFiles' = WriteFile(outFiles, full_path, result.content)
                       ELSE UNCHANGED <<outDirs, outFiles>>
                    /\ IF ArtifactItemRaises(h.output_format, result)
                       THEN Set(w, [h EXCEPT
                                      !.pc = "crashed",
                                      !.saved_path = saved_path,
                                      !.fault = Exc("UnicodeDecodeError",
                                                    "'utf-8' codec can't decode byte")])
                       ELSE Set(w, [h EXCEPT
                                      !.pc = "done",
                                      !.saved_path = saved_path,
                                      !.response =
                                          SavedItems(saved_path)
                                          \o <<ArtifactItem(h.output_format, result)>>])
    /\ UNCHANGED <<tmpfs, cwd, nextTmp, served>>

\* the handler is over and its locals are gone: the content list went to the
\* caller, or an exception left call_tool and the dispatch layer, which
\* catches Exception, answers for it (SystemExit and the like are not
\* caught: the context takes no further call)
Return(w) ==
    /\ \/ handler[w].pc = "done"
       \/ /\ handler[w].pc = "crashed"
          /\ IsInstance(handler[w].fault.cls, "Exception")
    /\ Set(w, IdleFrame)
    /\ UNCHANGED <<tmpfs, cwd, nextTmp, outDirs, outFiles, served>>

(***************************************************************************)
(* Specifications.                                                         *)
(*   Spec      the stdio server as it runs: call_tool holds no await, so   *)
(*             the event loop runs one handler to its end before it takes  *)
(*             the next message: a single handling context.                *)
(*   SpecConc  a dispatch layer that runs handlers in parallel (one thread *)
(*             per request): the steps of NumWorkers render handlers       *)
(*             interleave.                                                 *)
(***************************************************************************)
EventLoop == {w \in Workers : \A v \in Workers : w <= v}

RenderArguments == ArgumentsOver(Codes, Formats, OutputPaths)

\* in SpecConc the request of the first context carries one of the two
\* programs and every other request the other one, so that two requests
\* handled at once always differ in the bytes they write
ConcArguments(w) ==
    {a \in ArgumentsOver(IF w \in EventLoop THEN {CodePng} ELSE {CodePngB},
                         {"png", "pdf"}, {""}) :
        "code" \in DOMAIN a /\ "output_path" \notin DOMAIN a}

Next ==
    \E w \in EventLoop :
        \/ CallDescribe(w)
        \/ CallUnknown(w)
        \/ CallRender(w, RenderArguments)
        \/ MkTemp(w)
        \/ Chdir(w)
        \/ Exec(w)
        \/ Scan(w)
        \/ Exit(w)
        \/ Assemble(w)
        \/ Return(w)

Spec == Init /\ [][Next]_vars

NextConc ==
    \E w \in Workers :
        \/ CallRender(w, ConcArguments(w))
        \/ MkTemp(w)
        \/ Chdir(w)
        \/ Exec(w)
        \/ Scan(w)
        \/ Exit(w)
        \/ Assemble(w)
        \/ Return(w)

SpecConc == Init /\ [][NextConc]_vars

(***************************************************************************)
(* Properties.                                                             *)
(***************************************************************************)
Render(w) == handler[w].name = "diagrams_render"

\* the handler of w has ended: it returned, or an exception left call_tool
Ended(w) == handler[w].pc \in {"done", "crashed"}

\* render_diagram of w is over: it returned or an exception left it
RenderOver(w) == handler[w].pc \in {"assemble", "done", "crashed"}

\* the code of w holds neither accepted form of the diagrams import
LacksImport(w) ==
    /\ ~Contains(handler[w].code, "from diagrams")
    /\ ~Contains(handler[w].code, "import diagrams")

\* nothing under /output differs from what the handler of w found
OutputUntouched(w) ==
    /\ outFiles = handler[w].entry.outFiles
    /\ outDirs = handler[w].entry.outDirs

C2_ValidationFirst ==
    \A w \in Workers :
        Render(w) /\ LacksImport(w) =>
            /\ handler[w].pc = "done"
            /\ handler[w].response =
                  <<TextContent("Error: Code must import from the diagrams library")>>
            /\ handler[w].tmpdir = 0
            /\ nextTmp = handler[w].entry.nextTmp
            /\ cwd = handler[w].entry.cwd
            /\ ~handler[w].evaluated
            /\ OutputUntouched(w)

\* a rejected request that carried a program which would write a file, a
\* format and an output path
C2_Witness ==
    \E w \in Workers :
        /\ Render(w) /\ LacksImport(w) /\ handler[w].pc = "done"
        /\ handler[w].code = CodeNoImport
        /\ handler[w].output_format = "svg"
        /\ handler[w].output_path = "diagram"

\* C3, as claimed: every render request with a non-empty output_path, handled
\* while /output does not exist, ends with the mount-configuration text, with
\* nothing written.
C3_AsClaimed ==
    \A w \in Workers :
        /\ Render(w) /\ Ended(w)
        /\ Truthy(handler[w].output_path)
        /\ OutputDir \notin handler[w].entry.outDirs
        => /\ handler[w].pc = "done"
           /\ handler[w].response = <<TextContent(NotMountedError)>>
           /\ OutputUntouched(w)

\* C3, amended: a render request with a non-empty output_path whose
\* render_diagram call returned Success, handled while /output does not
\* exist, ends with exactly the mount-configuration text: no artifact item
\* is returned and nothing is written under /output.
C3_MissingMount ==
    \A w \in Workers :
        /\ Render(w) /\ Ended(w)
        /\ handler[w].result.success
        /\ Truthy(handler[w].output_path)
        /\ OutputDir \notin handler[w].entry.outDirs
        => /\ handler[w].pc = "done"
           /\ handler[w].response =
                 <<TextContent("Error: /output directory not mounted. Use: docker run -v /your/path:/output ...")>>
           /\ handler[w].saved_path = None
           /\ OutputUntouched(w)
           /\ outFiles = Empty

\* a successful svg render with an output path and no /output
C3_Witness ==
    \E w \in Workers :
        /\ Render(w) /\ handler[w].pc = "done"
        /\ handler[w].result.success
        /\ handler[w].output_format = "svg"
        /\ handler[w].output_path = "diagram"
        /\ OutputDir \notin outDirs

\* C4: once render_diagram is over, by a return or by an exception (caught
\* or not), its temporary directory does not exist; and every temporary
\* directory that exists belongs to a render_diagram call still inside its
\* with block.
C4_Cleanup ==
    /\ \A w \in Workers :
          Render(w) /\ RenderOver(w) => handler[w].tmpdir \notin DOMAIN tmpfs
    /\ \A d \in DOMAIN tmpfs :
          \E w \in Workers :
              /\ handler[w].tmpdir = d
              /\ handler[w].pc \in {"chdir", "exec", "scan", "exit"}

\* a second request has ended by an exception render_diagram does not catch,
\* after a first one whose program wrote files, and no directory is left
C4_Witness ==
    \E w \in Workers :
        /\ handler[w].pc = "crashed"
        /\ handler[w].raised.cls = "SystemExit"
        /\ handler[w].tmpdir = 2
        /\ tmpfs = Empty

\* the extension the claim expects the search to settle on: the requested
\* one, else png, else svg, else pdf; None when no file has any of them
ExpectedExt(files, output_format) ==
    LET has(ext) == \E f \in DOMAIN files : EndsWith(f, ext)
    IN  IF has("." \o output_format) THEN "." \o output_format
        ELSE IF has(".png") THEN ".png"
        ELSE IF has(".svg") THEN ".svg"
        ELSE IF has(".pdf") THEN ".pdf"
        ELSE None

MimeTable(ext) ==
    CASE ext = ".png" -> "image/png"
      [] ext = ".svg" -> "image/svg+xml"
      [] ext = ".pdf" -> "application/pdf"

\* C5: when the evaluation did not raise, the value render_diagram returns
\* from the search is Success with a file of the expected extension, that
\* file's bytes and the MIME type of the extension, and it is the "No
\* diagram file was generated" failure exactly when no file has a known
\* extension.
C5_Discovery ==
    \A w \in Workers :
        handler[w].pc = "exit" /\ handler[w].raised = NoExc =>
            LET files == tmpfs[handler[w].tmpdir]
                ext == ExpectedExt(files, handler[w].output_format)
                r == handler[w].result
            IN  /\ ext # None =>
                      /\ r.success
                      /\ r.filename \in DOMAIN files
                      /\ EndsWith(r.filename, ext)
                      /\ r.content = files[r.filename]
                      /\ r.mime_type = MimeTable(ext)
                /\ ext = None =>
                      /\ ~r.success
                      /\ StartsWith(r.error, "No diagram file was generated")
                /\ r.success <=> ext # None

\* svg was requested, the directory holds a png, an svg and a pdf, and the
\* svg was returned
C5_Witness ==
    \E w \in Workers :
        /\ handler[w].pc = "exit" /\ handler[w].raised = NoExc
        /\ handler[w].output_format = "svg"
        /\ DOMAIN tmpfs[handler[w].tmpdir] = {"out.png", "out.svg", "out.pdf"}
        /\ handler[w].result.filename = "out.svg"

C7_NeverFatal ==
    \A w \in Workers :
        Render(w) /\ handler[w].evaluated /\ RenderOver(w) =>
            /\ handler[w].pc # "crashed"
            /\ handler[w].pc = "done" /\ ~handler[w].result.success =>
                  /\ Len(handler[w].response) = 1
                  /\ handler[w].response[1].type = "text"
                  /\ StartsWith(handler[w].response[1].text, "Error: ")
                  /\ OutputUntouched(w)

\* C8: a successful render with a non-empty output_path and /output present
\* writes exactly the artifact bytes at /output/<p>, p being output_path when
\* it ends with "." + format and output_path + "." + format otherwise; the
\* directories above the file exist afterwards, no other file changes, and
\* normalizing a normalized path changes nothing.
C8_SavePath ==
    \A w \in Workers :
        /\ Render(w) /\ Ended(w)
        /\ handler[w].result.success
        /\ Truthy(handler[w].output_path)
        /\ OutputDir \in handler[w].entry.outDirs
        => LET path == handler[w].output_path
               fmt == handler[w].output_format
               p == IF EndsWith(path, "." \o fmt) THEN path
                    ELSE path \o "." \o fmt
               full == "/output/" \o p
               before == handler[w].entry.outFiles
           IN  /\ handler[w].saved_path = full
               /\ DOMAIN outFiles = DOMAIN before \cup {full}
               /\ outFiles[full] = handler[w].result.content
               /\ \A f \in DOMAIN before \ {full} : outFiles[f] = before[f]
               /\ ParentDirs(full) \subseteq outDirs
               /\ (path = "sub/diagram" => "/output/sub" \in outDirs)
               /\ (path = "diagram" /\ fmt = "png" => full = "/output/diagram.png")
               /\ (path = "diagram.png" /\ fmt = "png" => full = "/output/diagram.png")
               /\ "/output/diagram.png.png" \notin DOMAIN outFiles
               /\ NormalizePath(NormalizePath(path, fmt), fmt) =
                     NormalizePath(path, fmt)

\* diagram.png was asked for with format png and saved under that very name
C8_Witness ==
    \E w \in Workers :
        /\ Render(w) /\ handler[w].pc = "done"
        /\ handler[w].output_path = "diagram.png"
        /\ handler[w].output_format = "png"
        /\ handler[w].saved_path = "/output/diagram.png"
        /\ "/output/diagram.png" \in DOMAIN outFiles

\* the inverse of B64Encode, for the statement of C9
B64Index(c) == CHOOSE i \in 0..63 : B64Char(i) = c

RECURSIVE B64Decode(_)
B64Decode(s) ==
    IF Len(s) = 0 THEN <<>>
    ELSE LET c(i) == SubSeq(s, i, i)
             n1 == B64Index(c(1))
             n2 == B64Index(c(2))
         IN  IF c(3) = "=" THEN <<n1 * 4 + n2 \div 16>>
             ELSE LET n3 == B64Index(c(3))
                  IN  IF c(4) = "="
                      THEN <<n1 * 4 + n2 \div 16, (n2 % 16) * 16 + n3 \div 4>>
                      ELSE <<n1 * 4 + n2 \div 16, (n2 % 16) * 16 + n3 \div 4,
                             (n3 % 4) * 64 + B64Index(c(4))>>
                           \o B64Decode(SubSeq(s, 5, Len(s)))

\* C9: a render that succeeded (and was not stopped by a missing /output)
\* ends with a content list whose last item is the one artifact item: the
\* decoded text for svg, else an image item with the base64 of the artifact
\* bytes and the artifact's MIME type; "Saved to: <path>" comes first exactly
\* when a file was saved.
C9_Payload ==
    \A w \in Workers :
        /\ Render(w) /\ Ended(w)
        /\ handler[w].result.success
        /\ ~(Truthy(handler[w].output_path)
             /\ OutputDir \notin handler[w].entry.outDirs)
        => LET r == handler[w].response
               saved == Truthy(handler[w].output_path)
               item == r[Len(r)]
           IN  /\ handler[w].pc = "done"
               /\ Len(r) = IF saved THEN 2 ELSE 1
               /\ saved =>
                     r[1] = TextContent("Saved to: " \o handler[w].saved_path)
               /\ IF handler[w].output_format = "svg"
                  THEN item.type = "text"
                  ELSE /\ item.type = "image"
                       /\ B64Decode(item.data) = handler[w].result.content
                       /\ item.mimeType = handler[w].result.mime_type

\* the provider identifiers the overview document lists: the first cell of
\* every row of its table
FirstCell(line) ==
    LET ends == {i \in 3..(Len(line) - 1) : SubSeq(line, i, i + 1) = " |"}
    IN  SubSeq(line, 3, (CHOOSE i \in ends : \A j \in ends : i <= j) - 1)

ListedProviders ==
    {FirstCell(OverviewLines[i]) :
        i \in {j \in DOMAIN OverviewLines :
                  /\ StartsWith(OverviewLines[j], "| ")
                  /\ OverviewLines[j] # "| Provider | Description |"}}

\* C10: describe answers with one text item and changes nothing: the
\* overview for no category; for a category outside the provider table a
\* text naming it as unknown and listing the valid identifiers; for a known
\* one the provider's name, its modules comma-joined and its example; and
\* every provider the overview lists is answered as a known category.
C10_Describe ==
    \A w \in Workers :
        handler[w].name = "diagrams_describe" /\ handler[w].pc = "done" =>
            LET category == handler[w].category
                r == handler[w].response
            IN  /\ Len(r) = 1 /\ r[1].type = "text"
                /\ OutputUntouched(w)
                /\ cwd = handler[w].entry.cwd
                /\ nextTmp = handler[w].entry.nextTmp
                /\ category = None => r[1].text = OVERVIEW
                /\ Truthy(category) /\ category \notin DOMAIN PROVIDERS =>
                      /\ StartsWith(r[1].text, "Unknown category: " \o category)
                      /\ \A i \in DOMAIN ProviderKeys :
                            Contains(r[1].text, ProviderKeys[i])
                /\ category \in DOMAIN PROVIDERS =>
                      /\ Contains(r[1].text, PROVIDERS[category].name)
                      /\ Contains(r[1].text,
                                  "Modules: " \o Join(", ", PROVIDERS[category].modules))
                      /\ Contains(r[1].text, PROVIDERS[category].example)
                /\ category = "aws" => Contains(r[1].text, "Amazon Web Services")
                /\ category \in ListedProviders =>
                      ~StartsWith(r[1].text, "Unknown category: ")

====
